---------------------------- MODULE Spec2Model ----------------------------
(***************************************************************************)
(* Model of pve-config-backup.py: the backup daemon loop (run_daemon), the *)
(* mount check, the copy step (perform_rsync) and the retention pass       *)
(* (rotate_backups) over the host backup root.                             *)
(*                                                                         *)
(* File names are sequences of character codes, so that glob matching and  *)
(* Python's string ordering (sorted) are computed, not assumed.            *)
(***************************************************************************)
EXTENDS Integers, Sequences, FiniteSets, TLC

VARIABLES
    pc,            \* position of the daemon process in run_daemon
    cycle,         \* number of loop iterations started so far
    ismount,       \* what os.path.ismount returned in the current iteration
    rootExists,    \* the host backup root <nfs_base>/<hostname> exists
    entries,       \* names of the entries of the host backup root
    contents,      \* entry name -> set of source paths copied into it
    max_backups,   \* CONFIG["max_backups"]
    backup_path,   \* perform_rsync: name of the snapshot directory created
    success,       \* perform_rsync: second component of the return value
    srcExists,     \* environment: source paths for which os.path.exists holds
    srcFails,      \* environment: source paths on which rsync exits non-zero
    backups,       \* rotate_backups: the sorted glob result of the last pass
    rmtreeCalls,   \* rotate_backups: shutil.rmtree calls of the last pass, in order
    rmtreeFailed,  \* rotate_backups: the calls of the last pass that raised
    log,           \* records written through logger.info, in order
    created,       \* history: <<name, clock reading>> of every snapshot made
    fresh,         \* history: the host backup root held no entry at start
    rmtreeEverFailed, \* history: some shutil.rmtree call has raised
    removed,       \* history: the names shutil.rmtree has removed
    passes,        \* history: number of retention passes run
    logMark,       \* history: Len(log) when the current iteration began
    partial,       \* history: snapshots left unfinished by a forced termination
    kills,         \* history: number of forced terminations
    args,          \* main: the subcommand given on the command line
    location_ok,   \* environment: the script runs from SCRIPT_PATH
    cmdFails,      \* environment: the external commands and file operations that fail
    procs,         \* environment: the process table psutil.process_iter walks
    result,        \* main: what the administrative function returned
    exitStatus,    \* the exit status of the process
    stdout         \* the lines printed, in order

vars == <<pc, cycle, ismount, rootExists, entries, contents, max_backups,
          backup_path, success, srcExists, srcFails, backups, rmtreeCalls,
          rmtreeFailed, log, created, fresh,
          rmtreeEverFailed, removed, passes, logMark, partial, kills,
          args, location_ok, cmdFails, procs, result, exitStatus, stdout>>

\* The variables of the command line front end (main).
adminVars == <<args, location_ok, cmdFails, procs, result, exitStatus, stdout>>

\* The variables recording forced terminations.
killVars == <<partial, kills>>

---------------------------------------------------------------------------
\* Bounds of the model.

\* Loop iterations of run_daemon that are explored.
MaxCycles == 3

\* max_backups ranges over 0..MaxMaxBackups.
MaxMaxBackups == 2

\* Back-to-back retention passes explored by SpecRotate.
MaxPasses == 2

---------------------------------------------------------------------------
\* Strings as sequences of character codes.

\* "config_backup_"
Prefix == <<99, 111, 110, 102, 105, 103, 95, 98, 97, 99, 107, 117, 112, 95>>

\* "notes": an entry of the backup root that is no snapshot
Notes == <<110, 111, 116, 101, 115>>

Digit(d) == 48 + d

\* Mutant of Pad2: the field without its leading zero (as %-H would print).
Pad2_unpadded(n) == IF n < 10 THEN <<Digit(n)>> ELSE <<Digit(n \div 10), Digit(n % 10)>>

\* %m, %d, %H, %M, %S: two digits, zero padded
Pad2(n) == <<Digit(n \div 10), Digit(n % 10)>>

\* %Y: four digits
Pad4(n) == <<Digit(n \div 1000), Digit((n \div 100) % 10),
             Digit((n \div 10) % 10), Digit(n % 10)>>

\* The calendar fields of a clock reading t, seconds of local time since
\* 1970-01-01 00:00:00 (proleptic Gregorian calendar, as datetime keeps it).
Fields(t) ==
    LET days == t \div 86400
        rem  == t % 86400
        z    == days + 719468
        era  == z \div 146097
        doe  == z - era * 146097
        yoe  == (doe - doe \div 1460 + doe \div 36524 - doe \div 146096) \div 365
        doy  == doe - (365 * yoe + yoe \div 4 - yoe \div 100)
        mp   == (5 * doy + 2) \div 153
        d    == doy - (153 * mp + 2) \div 5 + 1
        m    == IF mp < 10 THEN mp + 3 ELSE mp - 9
        y    == yoe + era * 400 + (IF m <= 2 THEN 1 ELSE 0)
    IN  [year |-> y, month |-> m, day |-> d,
         hour |-> rem \div 3600, minute |-> (rem % 3600) \div 60,
         second |-> rem % 60]

\* datetime.strftime('%Y-%m-%d_%H%M%S')
strftime(t) ==
    LET f == Fields(t)
    IN  Pad4(f.year) \o <<45>> \o Pad2(f.month) \o <<45>> \o Pad2(f.day)
        \o <<95>> \o Pad2(f.hour) \o Pad2(f.minute) \o Pad2(f.second)

\* f"config_backup_{timestamp}"
SnapshotName(t) == Prefix \o strftime(t)

\* Python's < on str: code point by code point, a proper prefix is smaller.
LexLess(a, b) ==
    LET n == IF Len(a) < Len(b) THEN Len(a) ELSE Len(b)
        d == {i \in 1..n : a[i] # b[i]}
    IN  IF d = {} THEN Len(a) < Len(b)
        ELSE LET k == CHOOSE i \in d : \A j \in d : i <= j
             IN  a[k] < b[k]

\* fnmatch of a name against "config_backup_*"
Matches(name) ==
    /\ Len(name) >= Len(Prefix)
    /\ SubSeq(name, 1, Len(Prefix)) = Prefix

\* Mutant of glob: the pattern "*", every entry of the directory.
glob_all(dir) == dir

\* glob.glob(os.path.join(backup_dir, "config_backup_*")): the matching
\* entries; empty when the directory does not exist.
glob(dir) == {e \in dir : Matches(e)}

MaxName(S) == CHOOSE x \in S : \A y \in S : y = x \/ LexLess(y, x)

MinName(S) == CHOOSE x \in S : \A y \in S : y = x \/ LexLess(x, y)

\* Mutant of sorted_reverse: sorted(...) without reverse=True.
RECURSIVE sorted_ascending(_)
sorted_ascending(S) ==
    IF S = {} THEN <<>>
    ELSE <<MinName(S)>> \o sorted_ascending(S \ {MinName(S)})

\* sorted(..., reverse=True)
RECURSIVE sorted_reverse(_)
sorted_reverse(S) ==
    IF S = {} THEN <<>>
    ELSE <<MaxName(S)>> \o sorted_reverse(S \ {MaxName(S)})

Range(s) == {s[i] : i \in DOMAIN s}

Last(s) == s[Len(s)]

Min(a, b) == IF a < b THEN a ELSE b

---------------------------------------------------------------------------
\* Configuration and environment.

\* CONFIG["config_paths"], as an ordered list.  The shipped list has one
\* entry; a second one is configured here so that the loop over the list
\* has a "next path".  "/etc/pve/nodes" is 1, "/etc/network" is 2.
config_paths == <<1, 2>>

\* Wall-clock readings datetime.now() may return, in seconds:
\*   2024-12-31 23:59:59, 2025-01-01 09:59:59, 2025-01-01 10:00:00.
\* A cycle may read any of them: the local clock can step backwards.
ClockReadings == {1735689599, 1735725599, 1735725600}

\* Entries the host backup root may hold when the daemon starts: a file that
\* is no snapshot, and a snapshot left by an earlier run of the daemon.
InitialEntries == {Notes, SnapshotName(1735725599)}

\* Messages of logger.info
MsgSuccess == "Backup completed successfully"
MsgFailed  == "Backup failed"
MsgSkip    == "NFS not mounted, skipping backup cycle"

PathSet == Range(config_paths)

---------------------------------------------------------------------------
\* Mutant of check_nfs_mount: the gate always opens.
check_nfs_mount_always(m) == TRUE

\* check_nfs_mount: m is what os.path.ismount returns.
check_nfs_mount(m) == IF ~m THEN FALSE ELSE TRUE

\* Mutant of rsync_loop: no os.path.exists test, so rsync runs on a missing
\* path too and exits non-zero on it.
RECURSIVE rsync_loop_no_exists_test(_, _, _, _)
rsync_loop_no_exists_test(source, exists, fails, copied) ==
    IF source = <<>> THEN [copied |-> copied, success |-> TRUE]
    ELSE LET config_path == Head(source)
         IN  IF config_path \notin exists \/ config_path \in fails
             THEN [copied |-> copied, success |-> FALSE]
             ELSE rsync_loop_no_exists_test(Tail(source), exists, fails,
                                            copied \cup {config_path})

\* perform_rsync, the try block: the for loop over source.  exists is the set
\* of paths for which os.path.exists holds, fails the set on which rsync
\* exits non-zero (subprocess.run(check=True) raises CalledProcessError, which
\* leaves the loop for the except clause).  copied accumulates the paths
\* rsync has put into the snapshot.
RECURSIVE rsync_loop(_, _, _, _)
rsync_loop(source, exists, fails, copied) ==
    IF source = <<>> THEN [copied |-> copied, success |-> TRUE]
    ELSE LET config_path == Head(source)
         IN  IF config_path \in exists
             THEN IF config_path \in fails
                  THEN [copied |-> copied, success |-> FALSE]
                  ELSE rsync_loop(Tail(source), exists, fails,
                                  copied \cup {config_path})
             ELSE rsync_loop(Tail(source), exists, fails, copied)

\* Mutant of old_backups: the slice starts one entry late.
old_backups_late(bs, M) ==
    IF Len(bs) > M THEN SubSeq(bs, M + 2, Len(bs)) ELSE <<>>

\* Mutant of old_backups: only the first entry beyond the maximum.
old_backups_first(bs, M) ==
    IF Len(bs) > M THEN <<bs[M + 1]>> ELSE <<>>

\* Mutant of old_backups: the length test admits one more backup.
old_backups_strict(bs, M) ==
    IF Len(bs) > M + 1 THEN SubSeq(bs, M + 1, Len(bs)) ELSE <<>>

\* rotate_backups: backups[CONFIG["max_backups"]:] under the length test.
old_backups(bs, M) ==
    IF Len(bs) > M THEN SubSeq(bs, M + 1, Len(bs)) ELSE <<>>

\* Mutant of rmtree_loop: no try/except around rmtree, the first failure
\* leaves the loop and the function.
RECURSIVE rmtree_loop_uncaught(_, _)
rmtree_loop_uncaught(old, failing) ==
    IF old = <<>> THEN [calls |-> <<>>, removed |-> {}, raised |-> FALSE]
    ELSE LET old_backup == Head(old)
             rest == rmtree_loop_uncaught(Tail(old), failing)
         IN  IF old_backup \in failing
             THEN [calls |-> <<old_backup>>, removed |-> {}, raised |-> TRUE]
             ELSE [calls   |-> <<old_backup>> \o rest.calls,
                   removed |-> {old_backup} \cup rest.removed,
                   raised  |-> rest.raised]

\* rotate_backups, the for loop: shutil.rmtree on each old backup inside its
\* own try/except Exception: pass.  failing is the set of names on which
\* rmtree raises.  raised tells whether an exception leaves the loop.
RECURSIVE rmtree_loop(_, _)
rmtree_loop(old, failing) ==
    IF old = <<>> THEN [calls |-> <<>>, removed |-> {}, raised |-> FALSE]
    ELSE LET old_backup == Head(old)
             rest == rmtree_loop(Tail(old), failing)
         IN  [calls   |-> <<old_backup>> \o rest.calls,
              removed |-> (IF old_backup \in failing THEN {} ELSE {old_backup})
                          \cup rest.removed,
              raised  |-> rest.raised]

\* Mutant of makedirs_raises: os.makedirs(backup_path, exist_ok=True).
makedirs_exist_ok(dir, path, ok) == ~ok

\* perform_rsync: os.makedirs(backup_path) raises FileExistsError when the
\* name is taken, or another OSError (ok false).
makedirs_raises(dir, path, ok) == path \in dir \/ ~ok

\* Mutant of makedirs: the directory is not created (left to rsync).
makedirs_missing(dir, path) == dir

\* perform_rsync: os.makedirs(backup_path), the directory after the call.
makedirs(dir, path) == dir \cup {path}

\* Mutant of after_perform_rsync: the retention pass only after a copy
\* without failure.
after_perform_rsync_on_success(ok) ==
    IF ok THEN "rotate_backups" ELSE "log_outcome"

\* run_daemon: the statement after perform_rsync returns, whatever the
\* success flag is.
after_perform_rsync(ok) == "rotate_backups"

\* rotate_backups(backup_dir) on the directory holding `entries`.  A call of
\* rmtree that raises leaves the entry in place.
rotate_backups(failing) ==
    LET bs == sorted_reverse(glob(entries))
        r  == rmtree_loop(old_backups(bs, max_backups), failing)
    IN  /\ backups' = bs
        /\ rmtreeCalls' = r.calls
        /\ rmtreeFailed' = Range(r.calls) \cap failing
        /\ rmtreeEverFailed' = (rmtreeEverFailed \/ Range(r.calls) \cap failing # {})
        /\ removed' = removed \cup r.removed
        /\ passes' = passes + 1
        /\ entries' = entries \ r.removed
        /\ contents' = [e \in entries \ r.removed |-> contents[e]]
        /\ pc' = IF r.raised THEN "crashed"
                 ELSE IF pc = "rotate_backups" THEN "log_outcome" ELSE pc

\* The ways the rmtree calls of one pass can fail: any of the entries the
\* pattern matches may be undeletable.
RmtreeFailures == SUBSET glob(entries)

---------------------------------------------------------------------------
\* run_daemon

Init ==
    /\ pc = "check_nfs_mount"
    /\ cycle = 0
    /\ ismount = FALSE
    /\ entries \in SUBSET InitialEntries
    /\ rootExists \in {b \in BOOLEAN : entries # {} => b}
    /\ contents = [e \in entries |-> IF Matches(e) THEN PathSet ELSE {}]
    /\ max_backups \in 0..MaxMaxBackups
    /\ backup_path = <<>>
    /\ success = FALSE
    \* the state of the sources, which the daemon only reads
    /\ srcExists \in SUBSET PathSet
    /\ srcFails \in SUBSET srcExists
    /\ backups = <<>>
    /\ rmtreeCalls = <<>>
    /\ rmtreeFailed = {}
    /\ log = <<>>
    /\ created = <<>>
    /\ fresh = (entries = {})
    /\ rmtreeEverFailed = FALSE
    /\ removed = {}
    /\ passes = 0
    /\ logMark = 0
    /\ partial = {}
    /\ kills = 0
    /\ args = "daemon"
    /\ location_ok = TRUE
    /\ cmdFails = {}
    /\ procs = <<>>
    /\ result = TRUE
    /\ exitStatus = 0
    /\ stdout = <<>>

\* while True: if check_nfs_mount(): ... else: logger.info(skip)
CheckMount ==
    /\ pc = "check_nfs_mount"
    /\ cycle < MaxCycles
    /\ cycle' = cycle + 1
    /\ logMark' = Len(log)
    /\ \E m \in BOOLEAN :
         /\ ismount' = m
         /\ IF check_nfs_mount(m)
            THEN pc' = "create_backup_dir" /\ log' = log
            ELSE pc' = "sleep" /\ log' = Append(log, MsgSkip)
    /\ UNCHANGED <<rootExists, entries, contents, max_backups, backup_path,
                   success, srcExists, srcFails, backups, rmtreeCalls,
                   rmtreeFailed, created, fresh, rmtreeEverFailed, removed, passes>>
    /\ UNCHANGED <<killVars, adminVars>>

\* backup_dir = create_backup_dir(): os.makedirs(backup_dir, exist_ok=True).
\* On an existing directory it returns; otherwise the creation may raise
\* OSError, which nothing in run_daemon catches.
CreateBackupDir ==
    /\ pc = "create_backup_dir"
    /\ \E ok \in {b \in BOOLEAN : rootExists => b} :
         IF ok THEN rootExists' = TRUE /\ pc' = "perform_rsync"
         ELSE rootExists' = rootExists /\ pc' = "crashed"
    /\ UNCHANGED <<cycle, ismount, entries, contents, max_backups, backup_path,
                   success, srcExists, srcFails, backups, rmtreeCalls,
                   rmtreeFailed, log, created, fresh, rmtreeEverFailed, removed, passes>>
    /\ UNCHANGED <<logMark, killVars, adminVars>>

\* backup_path, success = perform_rsync(CONFIG["config_paths"], backup_dir).
\* os.makedirs(backup_path) raises FileExistsError when the name is taken,
\* or another OSError; neither is caught.
PerformRsync ==
    /\ pc = "perform_rsync"
    /\ \E t \in ClockReadings, mkdir_ok \in BOOLEAN :
         LET path == SnapshotName(t)
             r    == rsync_loop(config_paths, srcExists, srcFails, {})
         IN  IF makedirs_raises(entries, path, mkdir_ok)
             THEN /\ pc' = "crashed"
                  /\ UNCHANGED <<entries, contents, backup_path, success,
                                 created>>
             ELSE /\ pc' = after_perform_rsync(r.success)
                  /\ entries' = makedirs(entries, path)
                  /\ contents' = [e \in entries \cup {path} |->
                                    IF e = path THEN r.copied ELSE contents[e]]
                  /\ backup_path' = path
                  /\ success' = r.success
                  /\ created' = Append(created, [name |-> path, t |-> t])
    /\ UNCHANGED <<cycle, ismount, rootExists, max_backups, srcExists,
                   srcFails, backups, rmtreeCalls, rmtreeFailed, log, fresh,
                   rmtreeEverFailed, removed, passes>>
    /\ UNCHANGED <<logMark, killVars, adminVars>>

\* rotate_backups(backup_dir)
RotateBackups ==
    /\ pc = "rotate_backups"
    /\ \E failing \in RmtreeFailures : rotate_backups(failing)
    /\ UNCHANGED <<cycle, ismount, rootExists, max_backups, backup_path,
                   success, srcExists, srcFails, log, created, fresh>>
    /\ UNCHANGED <<logMark, killVars, adminVars>>

\* if success: logger.info(...) else: logger.info(...)
LogOutcome ==
    /\ pc = "log_outcome"
    /\ log' = Append(log, IF success THEN MsgSuccess ELSE MsgFailed)
    /\ pc' = "sleep"
    /\ UNCHANGED <<cycle, ismount, rootExists, entries, contents, max_backups,
                   backup_path, success, srcExists, srcFails, backups,
                   rmtreeCalls, rmtreeFailed, created, fresh,
                   rmtreeEverFailed, removed, passes>>
    /\ UNCHANGED <<logMark, killVars, adminVars>>

\* time.sleep(CONFIG["backup_interval"])
Sleep ==
    /\ pc = "sleep"
    /\ pc' = "check_nfs_mount"
    /\ UNCHANGED <<cycle, ismount, rootExists, entries, contents, max_backups,
                   backup_path, success, srcExists, srcFails, backups,
                   rmtreeCalls, rmtreeFailed, log, created, fresh,
                   rmtreeEverFailed, removed, passes>>
    /\ UNCHANGED <<logMark, killVars, adminVars>>

Next ==
    \/ CheckMount
    \/ CreateBackupDir
    \/ PerformRsync
    \/ RotateBackups
    \/ LogOutcome
    \/ Sleep

Spec == Init /\ [][Next]_vars

---------------------------------------------------------------------------
\* rotate_backups on its own: any directory contents, passes back to back.

\* Directory contents the retention pass is run on.
RotateEntries == {Notes} \cup {SnapshotName(t) : t \in ClockReadings}

InitRotate ==
    /\ pc = "rotate_only"
    /\ cycle = 0
    /\ ismount = TRUE
    /\ rootExists = TRUE
    /\ entries \in SUBSET RotateEntries
    /\ contents = [e \in entries |-> IF Matches(e) THEN PathSet ELSE {}]
    /\ max_backups \in 0..MaxMaxBackups
    /\ backup_path = <<>>
    /\ success = FALSE
    /\ srcExists = {}
    /\ srcFails = {}
    /\ backups = <<>>
    /\ rmtreeCalls = <<>>
    /\ rmtreeFailed = {}
    /\ log = <<>>
    /\ created = <<>>
    /\ fresh = (entries = {})
    /\ rmtreeEverFailed = FALSE
    /\ removed = {}
    /\ passes = 0
    /\ logMark = 0
    /\ partial = {}
    /\ kills = 0
    /\ args = "daemon"
    /\ location_ok = TRUE
    /\ cmdFails = {}
    /\ procs = <<>>
    /\ result = TRUE
    /\ exitStatus = 0
    /\ stdout = <<>>

RotateAgain ==
    /\ pc = "rotate_only"
    /\ passes < MaxPasses
    /\ \E failing \in RmtreeFailures : rotate_backups(failing)
    /\ UNCHANGED <<cycle, ismount, rootExists, max_backups, backup_path,
                   success, srcExists, srcFails, log, created, fresh>>
    /\ UNCHANGED <<logMark, killVars, adminVars>>

NextRotate == RotateAgain

SpecRotate == InitRotate /\ [][NextRotate]_vars

---------------------------------------------------------------------------
\* main: the command line front end.

\* The options of the argument parser, in the order main tests them; "help"
\* stands for no option at all.
Subcommands == {"install", "uninstall", "status", "stop", "start", "daemon",
                "info", "help"}

\* The external operations of the administrative functions that can fail:
\* writing SYSTEMD_PATH, removing it, the systemctl calls made with
\* check=True, and os.kill.
Commands == {"write_unit", "remove_unit", "daemon-reload", "enable", "start",
             "stop", "kill"}

\* Process tables stop_service may walk: "daemon" is a process whose command
\* line matches the script name and --daemon.
ProcTables == {<<>>, <<"other">>, <<"other", "daemon">>}

\* The number of backups show_info prints at most: backups[:5].
InfoLimit == 5

\* Clock readings of the snapshots show_info is run on.
InfoReadings == ClockReadings \cup {1735689598, 1735689600, 1735725598, 1735725601}

\* Directory contents show_info is run on.
InfoEntries == {Notes} \cup {SnapshotName(t) : t \in InfoReadings}

\* A printed line: its text and, for a line naming a backup, the name.
Line(text) == [text |-> text, name |-> <<>>]

BackupLine(name) == [text |-> "backup", name |-> name]

\* check_script_location: sys.exit(1) from another path.
check_script_location(ok) == IF ok THEN 0 ELSE 1

\* install_service: the return value.  Any exception of the four steps is
\* caught and gives False.
install_service(fails) ==
    {"write_unit", "daemon-reload", "enable", "start"} \cap fails = {}

\* uninstall_service: stop and disable run with check=False; removing the
\* unit file and daemon-reload can raise, which gives False.
uninstall_service(fails) ==
    {"remove_unit", "daemon-reload"} \cap fails = {}

\* stop_service: systemctl stop, and when it fails the first matching process
\* of the table is sent SIGTERM; an exception of os.kill reaches the outer
\* except clause and gives False, as does a table without a match.
stop_service(fails, ps) ==
    IF "stop" \notin fails THEN TRUE
    ELSE IF \E i \in DOMAIN ps : ps[i] = "daemon"
         THEN "kill" \notin fails
         ELSE FALSE

\* main: the exit status after the dispatch.  The return values of the
\* administrative functions are dropped and main returns None.
main_exit_status(action, ok) == 0

\* Mutant of head_slice: no limit, every backup is printed.
head_slice_all(bs, n) == bs

\* show_info: backups[:5]
head_slice(bs, n) == SubSeq(bs, 1, Min(n, Len(bs)))

\* show_info: the lines printed for a host directory (exists tells whether
\* os.path.isdir holds).
show_info(exists, dir) ==
    IF ~exists THEN <<Line("No backups found.")>>
    ELSE LET bs == sorted_reverse(glob(dir))
             shown == head_slice(bs, InfoLimit)
         IN  <<Line("The most recent config backup(s):"), Line("backup_host_dir")>>
             \o (IF bs # <<>>
                 THEN [i \in 1..Len(shown) |-> BackupLine(shown[i])]
                 ELSE <<Line("        No backups found.")>>)

daemonVars == <<cycle, ismount, rootExists, entries, contents, max_backups,
                backup_path, success, srcExists, srcFails, backups,
                rmtreeCalls, rmtreeFailed, log, created, fresh,
                rmtreeEverFailed, removed, passes, logMark>>

InitMain ==
    /\ pc = "main"
    /\ args \in Subcommands
    /\ location_ok \in BOOLEAN
    /\ cmdFails \in (IF args = "info" THEN {{}} ELSE SUBSET Commands)
    /\ procs \in (IF args = "info" THEN {<<>>} ELSE ProcTables)
    /\ entries \in (IF args = "info" THEN SUBSET InfoEntries ELSE {{}})
    /\ rootExists \in {b \in BOOLEAN : entries # {} => b}
    /\ contents = [e \in entries |-> IF Matches(e) THEN PathSet ELSE {}]
    /\ result = TRUE
    /\ exitStatus = 0
    /\ stdout = <<>>
    /\ cycle = 0
    /\ ismount = FALSE
    /\ max_backups = 0
    /\ backup_path = <<>>
    /\ success = FALSE
    /\ srcExists = {}
    /\ srcFails = {}
    /\ backups = <<>>
    /\ rmtreeCalls = <<>>
    /\ rmtreeFailed = {}
    /\ log = <<>>
    /\ created = <<>>
    /\ fresh = (entries = {})
    /\ rmtreeEverFailed = FALSE
    /\ removed = {}
    /\ passes = 0
    /\ logMark = 0
    /\ partial = {}
    /\ kills = 0

\* check_script_location()
CheckScriptLocation ==
    /\ pc = "main"
    /\ IF check_script_location(location_ok) = 0
       THEN pc' = "dispatch" /\ UNCHANGED <<exitStatus, stdout>>
       ELSE /\ pc' = "exited"
            /\ exitStatus' = check_script_location(location_ok)
            /\ stdout' = Append(stdout, Line("Error: Script is not in the correct location!"))
    /\ UNCHANGED <<daemonVars, killVars, args, location_ok, cmdFails, procs,
                   result>>

\* An administrative branch of main: the function is called, its message
\* printed, its return value dropped.
Admin(ok, good, bad) ==
    /\ result' = ok
    /\ stdout' = Append(stdout, Line(IF ok THEN good ELSE bad))
    /\ exitStatus' = main_exit_status(args, ok)
    /\ pc' = "exited"
    /\ UNCHANGED <<daemonVars, killVars, args, location_ok, cmdFails, procs>>

\* if args.install: install_service()
InstallService ==
    /\ pc = "dispatch" /\ args = "install"
    /\ Admin(install_service(cmdFails),
             "Service installed, enabled, and started successfully",
             "Failed to install service")

\* elif args.uninstall: uninstall_service()
UninstallService ==
    /\ pc = "dispatch" /\ args = "uninstall"
    /\ Admin(uninstall_service(cmdFails),
             "Service uninstalled successfully",
             "Failed to uninstall service")

\* elif args.status: get_service_status()
GetServiceStatus ==
    /\ pc = "dispatch" /\ args = "status"
    /\ Admin(TRUE, "systemctl status output", "systemctl status output")

\* elif args.stop: stop_service()
StopService ==
    /\ pc = "dispatch" /\ args = "stop"
    /\ Admin(stop_service(cmdFails, procs),
             "Service stopped", "No running backup process found")

\* elif args.start: systemctl start, CalledProcessError caught and printed
StartService ==
    /\ pc = "dispatch" /\ args = "start"
    /\ Admin("start" \notin cmdFails,
             "Service started successfully", "Failed to start service")

\* elif args.daemon: run_daemon(), which does not return
RunDaemon ==
    /\ pc = "dispatch" /\ args = "daemon"
    /\ pc' = "check_nfs_mount"
    /\ UNCHANGED <<daemonVars, killVars, adminVars>>

\* elif args.info: show_info()
ShowInfo ==
    /\ pc = "dispatch" /\ args = "info"
    /\ stdout' = stdout \o show_info(rootExists, entries)
    /\ exitStatus' = main_exit_status(args, TRUE)
    /\ pc' = "exited"
    /\ UNCHANGED <<daemonVars, killVars, args, location_ok, cmdFails, procs,
                   result>>

\* else: parser.print_help()
PrintHelp ==
    /\ pc = "dispatch" /\ args = "help"
    /\ stdout' = Append(stdout, Line("usage"))
    /\ exitStatus' = main_exit_status(args, TRUE)
    /\ pc' = "exited"
    /\ UNCHANGED <<daemonVars, killVars, args, location_ok, cmdFails, procs,
                   result>>

NextMain ==
    \/ CheckScriptLocation
    \/ InstallService
    \/ UninstallService
    \/ GetServiceStatus
    \/ StopService
    \/ StartService
    \/ RunDaemon
    \/ ShowInfo
    \/ PrintHelp

SpecMain == InitMain /\ [][NextMain]_vars

---------------------------------------------------------------------------
\* run_daemon under systemd: forced termination and Restart=always.

\* The number of forced terminations of a run.
MaxKills == 1

\* What perform_rsync has copied when the process is killed inside its loop:
\* the paths are copied in the order of config_paths, so a proper prefix.
PartialCopies(source, exists) ==
    {{source[i] : i \in 1..n} \cap exists : n \in 0..(Len(source) - 1)}

InitKill ==
    /\ Init
    /\ srcExists = PathSet
    /\ srcFails = {}

\* The process is killed inside perform_rsync, after os.makedirs and before
\* the loop over config_paths ends: the snapshot directory stays, partly
\* filled, and neither rotate_backups nor the outcome record is reached.
KillDuringRsync ==
    /\ pc = "perform_rsync"
    /\ kills < MaxKills
    /\ \E t \in ClockReadings :
         LET path == SnapshotName(t)
         IN  /\ ~makedirs_raises(entries, path, TRUE)
             /\ \E copied \in PartialCopies(config_paths, srcExists) :
                  /\ entries' = makedirs(entries, path)
                  /\ contents' = [e \in entries \cup {path} |->
                                    IF e = path THEN copied ELSE contents[e]]
                  /\ partial' = partial \cup {path}
    /\ kills' = kills + 1
    /\ pc' = "stopped"
    /\ UNCHANGED <<cycle, ismount, rootExists, max_backups, backup_path,
                   success, srcExists, srcFails, backups, rmtreeCalls,
                   rmtreeFailed, log, created, fresh, rmtreeEverFailed,
                   removed, passes, logMark, adminVars>>

\* Restart=always, RestartSec=10: systemd starts the daemon again after the
\* process has ended, whether killed or ended by an exception.
Restart ==
    /\ pc \in {"stopped", "crashed"}
    /\ pc' = "check_nfs_mount"
    /\ UNCHANGED <<cycle, ismount, rootExists, entries, contents, max_backups,
                   backup_path, success, srcExists, srcFails, backups,
                   rmtreeCalls, rmtreeFailed, log, created, fresh,
                   rmtreeEverFailed, removed, passes, logMark, killVars,
                   adminVars>>

NextKill ==
    \/ CheckMount
    \/ CreateBackupDir
    \/ PerformRsync
    \/ RotateBackups
    \/ LogOutcome
    \/ Sleep
    \/ KillDuringRsync
    \/ Restart

SpecKill == InitKill /\ [][NextKill]_vars

---------------------------------------------------------------------------
\* Notions the properties are stated in.

\* The snapshots among the entries of a directory: the entries named
\* config_backup_<something>.
Snapshots(dir) == {e \in dir : Matches(e)}

\* The M newest-by-name members of a set of names.
NewestByName(S, M) == {x \in S : Cardinality({y \in S : LexLess(x, y)}) < M}

\* A step that is one retention pass.
RetentionPass == passes' = passes + 1

---------------------------------------------------------------------------
\* C1, as claimed: after a retention pass over N snapshots with maximum M at
\* most M snapshots remain, and when N > M the survivors are exactly the M
\* newest by name.
C1_Original ==
    [][RetentionPass =>
         LET S == Snapshots(entries)
         IN  /\ Cardinality(Snapshots(entries')) <= max_backups
             /\ Cardinality(S) > max_backups
                  => Snapshots(entries') = NewestByName(S, max_backups)]_vars

\* C1, amended: after a retention pass the remaining snapshots are exactly
\* the M newest by name together with the older ones whose deletion failed;
\* when no deletion fails at most M remain, and when moreover N > M exactly
\* the N-M oldest by name are removed.
C1_Retention ==
    [][RetentionPass =>
         LET S   == Snapshots(entries)
             old == S \ NewestByName(S, max_backups)
         IN  /\ rmtreeFailed' \subseteq old
             /\ Snapshots(entries') = NewestByName(S, max_backups) \cup rmtreeFailed'
             /\ rmtreeFailed' = {}
                  => /\ Cardinality(Snapshots(entries')) <= max_backups
                     /\ Cardinality(S) > max_backups
                          => Cardinality(S \ Snapshots(entries'))
                               = Cardinality(S) - max_backups]_vars

\* C1 witness: a pass over more snapshots than the maximum has removed one
\* and failed to remove another.
C1_Witness ==
    /\ passes > 0
    /\ Len(backups) > max_backups + 1
    /\ rmtreeFailed # {}
    /\ \E i \in DOMAIN rmtreeCalls : rmtreeCalls[i] \notin entries

---------------------------------------------------------------------------
\* C2: an iteration of run_daemon in which the shared root is no mount point
\* creates no snapshot and no host backup root, deletes nothing, logs the
\* skip and goes to the sleep.
C2_MountGate ==
    [][(pc = "check_nfs_mount" /\ pc' # pc /\ ~ismount') =>
         /\ pc' = "sleep"
         /\ entries' = entries
         /\ contents' = contents
         /\ rootExists' = rootExists
         /\ removed' = removed
         /\ passes' = passes
         /\ created' = created
         /\ log' = Append(log, MsgSkip)]_vars

\* C2 witness: the daemon sleeps after a skipped iteration, the host backup
\* root still absent.
C2_Witness ==
    /\ pc = "sleep"
    /\ ~ismount
    /\ ~rootExists
    /\ log # <<>> /\ Last(log) = MsgSkip

---------------------------------------------------------------------------
\* C3, as claimed: when the copy of one path fails, every other existing
\* source path is still copied into the snapshot.
C3_Claim ==
    pc = "rotate_backups" =>
        (srcExists \ srcFails) \subseteq contents[backup_path]

---------------------------------------------------------------------------
\* C4, as claimed: no exception raised inside a cycle ends run_daemon.
C4_Claim == pc # "crashed"

---------------------------------------------------------------------------
---------------------------------------------------------------------------
\* C6: in a retention pass every snapshot beyond the maximum is handed to
\* rmtree, those whose deletion does not fail are gone afterwards, and the
\* pass ends normally, whichever deletions fail.
C6_DeletionIsolated ==
    [][RetentionPass =>
         LET S   == Snapshots(entries)
             old == S \ NewestByName(S, max_backups)
         IN  /\ Range(rmtreeCalls') = old
             /\ (old \ rmtreeFailed') \cap entries' = {}
             /\ pc' # "crashed"]_vars

\* C6 witness: a pass in which a deletion failed and a later one succeeded.
C6_Witness ==
    /\ passes > 0
    /\ \E i, j \in DOMAIN rmtreeCalls :
         /\ i < j
         /\ rmtreeCalls[i] \in rmtreeFailed
         /\ rmtreeCalls[j] \notin entries

---------------------------------------------------------------------------
\* C7: when no existing source path fails to copy, missing paths do not make
\* the cycle fail: perform_rsync reports success, the success record is
\* logged, and the snapshot holds exactly the existing paths.
C7_MissingSkipped ==
    (ismount /\ srcFails = {}) =>
        /\ pc \in {"rotate_backups", "log_outcome"} => success
        /\ (pc \in {"rotate_backups", "log_outcome", "sleep"}
              /\ backup_path \in entries)
             => contents[backup_path] = srcExists
        /\ pc = "sleep" => Last(log) = MsgSuccess

\* C7 witness: a cycle has ended with the success record, one path missing
\* and the other in the snapshot.
C7_Witness ==
    /\ pc = "sleep"
    /\ ismount
    /\ srcFails = {}
    /\ srcExists # {} /\ srcExists # PathSet
    /\ Last(log) = MsgSuccess
    /\ backup_path \in entries
    /\ contents[backup_path] = srcExists

---------------------------------------------------------------------------
\* The scenario of C8: the host backup root was empty, and each of the
\* `cycle` iterations so far found the mount, copied every source and read a
\* later clock value than the one before.
C8_Scenario ==
    /\ fresh
    /\ pc = "sleep"
    /\ Len(log) = cycle
    /\ \A i \in DOMAIN log : log[i] = MsgSuccess
    /\ srcExists = PathSet
    /\ Len(created) = cycle
    /\ \A i, j \in DOMAIN created : i < j => created[i].t < created[j].t

\* The n snapshots created last.
MostRecent(n) == {created[i].name : i \in (Len(created) - n + 1)..Len(created)}

---------------------------------------------------------------------------
---------------------------------------------------------------------------
---------------------------------------------------------------------------
\* C11: in an iteration that passes the mount check the steps run in the
\* order create_backup_dir, perform_rsync (snapshot directory, then copy),
\* rotate_backups, outcome record; the retention pass runs once after each
\* copy step, whatever success flag the copy step returned.
C11_StepOrder ==
    [][/\ (pc = "check_nfs_mount" /\ pc' # pc /\ ismount')
            => pc' = "create_backup_dir"
       /\ pc = "create_backup_dir" => pc' \in {"perform_rsync", "crashed"}
       /\ pc = "perform_rsync" => pc' \in {"rotate_backups", "crashed"}
       /\ (pc = "perform_rsync" /\ created' # created) => pc' = "rotate_backups"
       /\ pc = "rotate_backups" => (pc' = "log_outcome" /\ RetentionPass)
       /\ pc = "log_outcome" => (pc' = "sleep" /\ Len(log') = Len(log) + 1)
       /\ rootExists' # rootExists => pc = "create_backup_dir"
       /\ created' # created => pc = "perform_rsync"
       /\ RetentionPass => pc = "rotate_backups"
       /\ pc' \in {"log_outcome", "sleep", "check_nfs_mount"}
            => passes' = Len(created')]_vars

\* C11 witness: an iteration whose copy step failed has run its retention
\* pass and logged its outcome.
C11_Witness ==
    /\ pc = "sleep"
    /\ ismount
    /\ Last(log) = MsgFailed
    /\ passes = Len(created)
    /\ passes >= 1

---------------------------------------------------------------------------
\* The outcome records of the log.
OutcomeRecords == {i \in DOMAIN log : log[i] \in {MsgSuccess, MsgFailed}}

\* The skip records of the log.
SkipRecords == {i \in DOMAIN log : log[i] = MsgSkip}

\* C13, as claimed: once an iteration is over, every iteration that passed
\* the mount check has exactly one outcome record, and the record of the
\* last one says success exactly when no path copy failed.
C13_Claim ==
    pc \in {"sleep", "crashed"} =>
        /\ Cardinality(OutcomeRecords) = cycle - Cardinality(SkipRecords)
        /\ (pc = "sleep" /\ ismount)
             => ((Last(log) = MsgSuccess) = (srcFails = {}))

---------------------------------------------------------------------------
\* C14, as claimed: by the time the outcome is logged, the iteration has
\* written a record for every missing source path, for the failed path copy
\* and for every rmtree call of the retention pass.
C14_Claim ==
    pc = "log_outcome" =>
        Len(log) - logMark >= Cardinality(PathSet \ srcExists)
                              + (IF success THEN 0 ELSE 1)
                              + Len(rmtreeCalls)

---------------------------------------------------------------------------
\* C15, as claimed: within one pass the deletions go from the oldest name to
\* the newest.
C15_Claim ==
    \A i, j \in DOMAIN rmtreeCalls :
        i < j => LexLess(rmtreeCalls[i], rmtreeCalls[j])

---------------------------------------------------------------------------
\* C16: when perform_rsync has returned, the snapshot directory it named
\* exists, and it is empty when every configured path is missing or fails.
C16_SnapshotDirExists ==
    pc = "rotate_backups" =>
        /\ backup_path \in entries
        /\ backup_path = Last(created).name
        /\ (\A p \in PathSet : p \notin srcExists \/ p \in srcFails)
             => contents[backup_path] = {}

\* C16 witness: perform_rsync has returned failure with every path failing,
\* and the directory is there, empty.
C16_Witness ==
    /\ pc = "rotate_backups"
    /\ srcExists = PathSet
    /\ srcFails = PathSet
    /\ ~success
    /\ backup_path \in entries
    /\ contents[backup_path] = {}

---------------------------------------------------------------------------
\* C18: a snapshot disappears only in a retention pass that called rmtree on
\* it, no step changes what an existing snapshot holds, and the copy step
\* adds and fills only the directory it has just created.
C18_SnapshotsImmutable ==
    [][/\ \A e \in Snapshots(entries) :
            /\ e \notin entries' => (RetentionPass /\ e \in Range(rmtreeCalls'))
            /\ e \in entries' => contents'[e] = contents[e]
       /\ created' # created
            => (backup_path' \notin entries /\ entries' = entries \cup {backup_path'})
       /\ created' = created => entries' \subseteq entries]_vars

\* C18 witness: a second copy step has run while the snapshot of the first
\* iteration was there, and a retention pass has removed a snapshot.
C18_Witness ==
    /\ pc = "rotate_backups"
    /\ Len(created) >= 2
    /\ created[1].name \in entries
    /\ removed # {}

---------------------------------------------------------------------------
\* C20, as claimed: with max_backups >= 1 the retention pass of an iteration
\* does not delete the snapshot that iteration created.
C20_Claim ==
    (max_backups >= 1 /\ pc = "log_outcome") => backup_path \in entries

---------------------------------------------------------------------------
\* C12, as claimed: the process exits with a non-zero status when install,
\* uninstall or stop fails, and with 0 otherwise.
C12_Claim ==
    (pc = "exited" /\ location_ok) =>
        IF args \in {"install", "uninstall", "stop"} /\ ~result
        THEN exitStatus # 0
        ELSE exitStatus = 0

---------------------------------------------------------------------------
\* The backup names show_info has printed, in the order printed.
PrintedBackups ==
    LET lines == SelectSeq(stdout, LAMBDA l : l.text = "backup")
    IN  [i \in 1..Len(lines) |-> lines[i].name]

\* C17: show_info prints at most 5 names, they are the newest by name of the
\* snapshots of the host directory, newest first.
C17_InfoNewestFive ==
    (pc = "exited" /\ args = "info" /\ location_ok) =>
        /\ Len(PrintedBackups) <= 5
        /\ Range(PrintedBackups) = NewestByName(Snapshots(entries), 5)
        /\ \A i, j \in DOMAIN PrintedBackups :
             i < j => LexLess(PrintedBackups[j], PrintedBackups[i])

\* C17 witness: seven snapshots exist and five names were printed.
C17_Witness ==
    /\ pc = "exited"
    /\ args = "info"
    /\ Cardinality(Snapshots(entries)) = 7
    /\ Len(PrintedBackups) = 5

---------------------------------------------------------------------------
\* The snapshots of the directory that are newer by name than p.
NewerThan(p) == {s \in Snapshots(entries) : LexLess(p, s)}

\* A partial snapshot that the coming retention pass finds with at least
\* max_backups newer snapshots beside it.
AgedOut(p) ==
    /\ p \in partial \cap entries
    /\ Cardinality(NewerThan(p)) >= max_backups

=============================================================================
